---- MODULE Spec2Model ----
(***************************************************************************)
(* LightChain L2 continuous transaction generator                          *)
(* (scripts/continuous-tx-generator.py).                                   *)
(*                                                                         *)
(* The program is two threads over the shared dict `stats` and the flag    *)
(* `running`: the main thread (STARTUP wait loop, then the generation      *)
(* loop with bursts) and the daemon monitor thread (monitor_blockchain).   *)
(* Both reach the network only through send_rpc_request.                   *)
(*                                                                         *)
(* Specifications:                                                         *)
(*   SpecRpc      send_rpc_request applied to every sequence of per-POST   *)
(*                outcomes;                                                *)
(*   SpecMonitor  the monitor thread and the signal handler (health checks *)
(*                run one at a time);                                      *)
(*   SpecMain     the main thread and the signal handler, through 20       *)
(*                iterations of the generation loop and the burst after    *)
(*                them;                                                    *)
(*   SpecBoth     both threads and the signal handler, interleaved at      *)
(*                every step, through STARTUP and the first iterations;    *)
(*   SpecBothFair SpecBoth with every thread that can step stepping;       *)
(*   SpecGen      generate_realistic_transaction applied to account pools, *)
(*                pattern tables and random draws.                         *)
(***************************************************************************)
EXTENDS Integers, Sequences, FiniteSets, TLC

\* Largest block height an endpoint reports in the model.
MaxHeight == 2

\* ----------------------------------------------------------------------
\* Strings are sequences of one-character strings; hex() and int(s, 16)
\* are computed digit by digit.
\* ----------------------------------------------------------------------

HexDigits == <<"0", "1", "2", "3", "4", "5", "6", "7",
               "8", "9", "a", "b", "c", "d", "e", "f">>

RECURSIVE hex_digits(_)
hex_digits(n) ==
    IF n < 16 THEN <<HexDigits[n + 1]>>
    ELSE Append(hex_digits(n \div 16), HexDigits[(n % 16) + 1])

\* Python's hex(n): a "-" for a negative n, "0x", and the digits of |n|
\* without leading zeros.
hex(n) ==
    IF n < 0 THEN <<"-", "0", "x">> \o hex_digits(0 - n)
    ELSE <<"0", "x">> \o hex_digits(n)

\* Value of one character as a base-16 digit, -1 when it is none.
digit_value(c) ==
    IF \E i \in 1..16 : HexDigits[i] = c
    THEN (CHOOSE i \in 1..16 : HexDigits[i] = c) - 1
    ELSE -1

RECURSIVE digits_value(_, _)
digits_value(s, acc) ==
    IF s = <<>> THEN acc
    ELSE digits_value(Tail(s), acc * 16 + digit_value(Head(s)))

\* Python's int(s, 16) on a str: an optional sign, an optional "0x" prefix,
\* then one or more hex digits.  [ok |-> FALSE] stands for the ValueError
\* it raises.
int16(s) ==
    LET neg == Len(s) >= 1 /\ s[1] = "-"
        unsigned == IF neg THEN Tail(s) ELSE s
        body == IF Len(unsigned) >= 2 /\ unsigned[1] = "0" /\ unsigned[2] = "x"
                THEN SubSeq(unsigned, 3, Len(unsigned)) ELSE unsigned
    IN  IF body = <<>> \/ \E i \in 1..Len(body) : digit_value(body[i]) < 0
        THEN [ok |-> FALSE, val |-> 0]
        ELSE [ok |-> TRUE,
              val |-> IF neg THEN 0 - digits_value(body, 0)
                      ELSE digits_value(body, 0)]

\* ----------------------------------------------------------------------
\* JSON-RPC responses
\* ----------------------------------------------------------------------

\* Python's None.
None == [kind |-> "none"]

\* Values an endpoint puts in the "result" field: hex strings (a block
\* height, a transaction hash), a string that is no hex number, JSON null.
ResultValues ==
    {[str |-> TRUE, s |-> hex(h)] : h \in 0..MaxHeight}
        \cup {[str |-> TRUE, s |-> <<"z", "z">>], [str |-> FALSE, s |-> <<>>]}

\* Parsed bodies of an HTTP 200 answer (response.json()): an object with a
\* "result" field, an object with an "error" field, an object with neither,
\* and a JSON scalar (truthy, not a container).
Bodies ==
    {[kind |-> "result", result |-> v] : v \in ResultValues}
        \cup {[kind |-> "error"], [kind |-> "other"], [kind |-> "scalar"]}

\* What one requests.post can do: raise a RequestException, or return a
\* response with a status code and a body.
Outcomes ==
    {[exc |-> TRUE, status |-> 0, body |-> None]}
        \cup {[exc |-> FALSE, status |-> 500, body |-> None]}
        \cup {[exc |-> FALSE, status |-> 200, body |-> b] : b \in Bodies}

max_retries == 3

\* The network's answers to the POSTs of one send_rpc_request call.
OutcomeSeqs == [1..max_retries -> Outcomes]

RECURSIVE pow2(_)
pow2(n) == IF n = 0 THEN 1 ELSE 2 * pow2(n - 1)

\* rpc_attempts with the backoff sleep taken after the last failed attempt
\* too (`attempt < max_retries` for `attempt < max_retries - 1`).
RECURSIVE rpc_attempts_sleep_after_last(_, _, _)
rpc_attempts_sleep_after_last(outs, attempt, acc) ==
    IF attempt >= max_retries THEN [acc EXCEPT !.ret = None]
    ELSE LET o == outs[attempt + 1]
             posted == [acc EXCEPT !.posts = @ + 1]
         IN  IF o.exc
             THEN rpc_attempts_sleep_after_last(outs, attempt + 1,
                      [posted EXCEPT !.warns = @ + 1,
                                     !.sleeps = Append(@, pow2(attempt))])
             ELSE IF o.status = 200
                  THEN [posted EXCEPT !.ret = o.body]
                  ELSE rpc_attempts_sleep_after_last(outs, attempt + 1,
                           [posted EXCEPT !.warns = @ + 1])

\* rpc_attempts giving up at the first non-200 response (a `return None`
\* in the else branch of the status test).
RECURSIVE rpc_attempts_status_final(_, _, _)
rpc_attempts_status_final(outs, attempt, acc) ==
    IF attempt >= max_retries THEN [acc EXCEPT !.ret = None]
    ELSE LET o == outs[attempt + 1]
             posted == [acc EXCEPT !.posts = @ + 1]
         IN  IF o.exc
             THEN IF attempt < max_retries - 1
                  THEN rpc_attempts_status_final(outs, attempt + 1,
                           [posted EXCEPT !.warns = @ + 1,
                                          !.sleeps = Append(@, pow2(attempt))])
                  ELSE rpc_attempts_status_final(outs, attempt + 1,
                           [posted EXCEPT !.errors = @ + 1])
             ELSE IF o.status = 200
                  THEN [posted EXCEPT !.ret = o.body]
                  ELSE [posted EXCEPT !.warns = @ + 1, !.ret = None]

\* rpc_attempts letting the transport exception of the last attempt escape
\* (a `raise` in the else branch of the handler).
RECURSIVE rpc_attempts_last_raises(_, _, _)
rpc_attempts_last_raises(outs, attempt, acc) ==
    IF attempt >= max_retries THEN [acc EXCEPT !.ret = None]
    ELSE LET o == outs[attempt + 1]
             posted == [acc EXCEPT !.posts = @ + 1]
         IN  IF o.exc
             THEN IF attempt < max_retries - 1
                  THEN rpc_attempts_last_raises(outs, attempt + 1,
                           [posted EXCEPT !.warns = @ + 1,
                                          !.sleeps = Append(@, pow2(attempt))])
                  ELSE [posted EXCEPT !.errors = @ + 1,
                                      !.ret = [kind |-> "raised"]]
             ELSE IF o.status = 200
                  THEN [posted EXCEPT !.ret = o.body]
                  ELSE rpc_attempts_last_raises(outs, attempt + 1,
                           [posted EXCEPT !.warns = @ + 1])

\* The for loop of send_rpc_request from iteration `attempt` on; `acc`
\* records what the call has done so far: POSTs made, time.sleep delays,
\* WARN and ERROR lines logged.
RECURSIVE rpc_attempts(_, _, _)
rpc_attempts(outs, attempt, acc) ==
    IF attempt >= max_retries THEN [acc EXCEPT !.ret = None]
    ELSE LET o == outs[attempt + 1]
             posted == [acc EXCEPT !.posts = @ + 1]
         IN  IF o.exc
             THEN IF attempt < max_retries - 1
                  THEN rpc_attempts(outs, attempt + 1,
                           [posted EXCEPT !.warns = @ + 1,
                                          !.sleeps = Append(@, pow2(attempt))])
                  ELSE rpc_attempts(outs, attempt + 1,
                           [posted EXCEPT !.errors = @ + 1])
             ELSE IF o.status = 200
                  THEN [posted EXCEPT !.ret = o.body]
                  ELSE rpc_attempts(outs, attempt + 1,
                           [posted EXCEPT !.warns = @ + 1])

send_rpc_request(outs) ==
    rpc_attempts(outs, 0,
        [ret |-> None, posts |-> 0, sleeps |-> <<>>, warns |-> 0, errors |-> 0])

\* Every value send_rpc_request can return.
RpcResults == {send_rpc_request(outs).ret : outs \in OutcomeSeqs}

\* `result and "result" in result`, for a dict or None.
has_result(r) == r.kind = "result"

\* A truthy JSON scalar: `"result" in result` raises TypeError.
raises_in(r) == r.kind = "scalar"

VARIABLES
    running,        \* the global flag
    stats,          \* the global dict (start_time left out)
    rpc_outs,       \* SpecRpc: the outcomes the network gives one call
    rpc_call,       \* SpecRpc: what that call did, None before it ran
    hc,             \* per thread: the frame of its check_network_health call
    pc_mon,         \* monitor thread: position in monitor_blockchain
    mon_warn,       \* monitor: "All endpoints down" logged in this iteration
    mon_sleep,      \* monitor: seconds of the time.sleep of this iteration
    ENABLE_BURST_MODE,      \* the configuration flag, fixed at start
    pc_main,                \* main thread: position in main
    transaction_count,      \* main's local counter
    tx,                     \* the frame of the send_transaction call
    burst,                  \* generate_burst_activity: burst_size and i
    main_error,             \* main logged "Unexpected error"
    final_stats_printed,    \* the finally block of main called print_statistics
    gen_in,         \* SpecGen: the account pool, the pattern table, the draws
    gen_out         \* SpecGen: what generate_realistic_transaction did

vars ==
    <<running, stats, rpc_outs, rpc_call, hc, pc_mon, mon_warn, mon_sleep,
      ENABLE_BURST_MODE, pc_main, transaction_count, tx, burst, main_error,
      final_stats_printed, gen_in, gen_out>>

rpc_vars == <<rpc_outs, rpc_call>>
gen_vars == <<gen_in, gen_out>>
mon_vars == <<pc_mon, mon_warn, mon_sleep>>
main_vars ==
    <<ENABLE_BURST_MODE, pc_main, transaction_count, tx, burst, main_error,
      final_stats_printed>>

Threads == {"main", "monitor"}

\* ----------------------------------------------------------------------
\* check_network_health.  The three requests and the parsing touch only
\* locals and are one step; lines 114-116 are one step per read or write of
\* stats.
\* ----------------------------------------------------------------------

\* The frame of a call: pc, the locals, the values line 115 has loaded,
\* whether the except block ran, and the returned tuple.
hc_idle ==
    [pc |-> "idle", validator_ok |-> FALSE, sequencer_ok |-> FALSE,
     current_block |-> 0, obs |-> 0, last |-> 0, exc |-> FALSE, ret |-> None]

hc_entry == [hc_idle EXCEPT !.pc = "probe"]

hc_tuple(v, s, b) ==
    [kind |-> "tuple", validator_ok |-> v, sequencer_ok |-> s, current_block |-> b]

\* return validator_ok, sequencer_ok, current_block
hc_returned(f) ==
    [f EXCEPT !.pc = "done", !.obs = 0, !.last = 0,
              !.ret = hc_tuple(f.validator_ok, f.sequencer_ok, f.current_block)]

\* The height lines 110-112 compute from the eth_blockNumber answer;
\* [ok |-> FALSE] when they raise (TypeError from `in` on a scalar or from
\* int(None, 16), ValueError from int on a string that is no hex number).
block_height(r) ==
    IF raises_in(r) THEN [ok |-> FALSE, val |-> 0]
    ELSE IF has_result(r)
         THEN IF r.result.str THEN int16(r.result.s) ELSE [ok |-> FALSE, val |-> 0]
         ELSE [ok |-> TRUE, val |-> 0]

\* Lines 101-112: web3_clientVersion on the validator and on the sequencer,
\* eth_blockNumber on the validator, current_block.  When line 111 or 112
\* raises, the except block (lines 120-122) logs "Health check failed" and
\* returns False, False, 0.
hc_probe(t) ==
    /\ hc[t].pc = "probe"
    /\ \E v \in {r # None : r \in RpcResults} :
       \E s \in {r # None : r \in RpcResults} :
       \E h \in {block_height(r) : r \in RpcResults} :
          LET f == [hc[t] EXCEPT !.validator_ok = v, !.sequencer_ok = s]
          IN  hc' = IF h.ok
                    THEN [hc EXCEPT ![t] = [f EXCEPT !.current_block = h.val,
                                                     !.pc = "compare"]]
                    ELSE [hc EXCEPT ![t] = [f EXCEPT !.pc = "done", !.exc = TRUE,
                                                     !.ret = hc_tuple(FALSE, FALSE, 0)]]
    /\ UNCHANGED <<running, stats, rpc_vars, gen_vars, mon_vars, main_vars>>

\* hc_compare with `!=` for `>`.
hc_compare_unequal(t) ==
    /\ hc[t].pc = "compare"
    /\ hc' = [hc EXCEPT ![t] =
                 IF hc[t].current_block # stats.last_block_check
                 THEN [hc[t] EXCEPT !.pc = "load"] ELSE hc_returned(hc[t])]
    /\ UNCHANGED <<running, stats, rpc_vars, gen_vars, mon_vars, main_vars>>

\* if current_block > stats["last_block_check"]: ... else return (line 118)
hc_compare(t) ==
    /\ hc[t].pc = "compare"
    /\ hc' = [hc EXCEPT ![t] =
                 IF hc[t].current_block > stats.last_block_check
                 THEN [hc[t] EXCEPT !.pc = "load"] ELSE hc_returned(hc[t])]
    /\ UNCHANGED <<running, stats, rpc_vars, gen_vars, mon_vars, main_vars>>

\* stats["blocks_observed"] += ...: the left operand is loaded
hc_load(t) ==
    /\ hc[t].pc = "load"
    /\ hc' = [hc EXCEPT ![t].obs = stats.blocks_observed, ![t].pc = "delta"]
    /\ UNCHANGED <<running, stats, rpc_vars, gen_vars, mon_vars, main_vars>>

\* ... current_block - stats["last_block_check"]: the watermark is read again
hc_delta(t) ==
    /\ hc[t].pc = "delta"
    /\ hc' = [hc EXCEPT ![t].last = stats.last_block_check, ![t].pc = "store"]
    /\ UNCHANGED <<running, stats, rpc_vars, gen_vars, mon_vars, main_vars>>

\* hc_store writing the sum under the key of the transaction counter.
hc_store_wrong_key(t) ==
    /\ hc[t].pc = "store"
    /\ stats' = [stats EXCEPT !.total_transactions =
                     hc[t].obs + (hc[t].current_block - hc[t].last)]
    /\ hc' = [hc EXCEPT ![t].pc = "assign"]
    /\ UNCHANGED <<running, rpc_vars, gen_vars, mon_vars, main_vars>>

\* ... and the sum is stored
hc_store(t) ==
    /\ hc[t].pc = "store"
    /\ stats' = [stats EXCEPT !.blocks_observed =
                     hc[t].obs + (hc[t].current_block - hc[t].last)]
    /\ hc' = [hc EXCEPT ![t].pc = "assign"]
    /\ UNCHANGED <<running, rpc_vars, gen_vars, mon_vars, main_vars>>

\* stats["last_block_check"] = current_block; return (line 118)
hc_assign(t) ==
    /\ hc[t].pc = "assign"
    /\ stats' = [stats EXCEPT !.last_block_check = hc[t].current_block]
    /\ hc' = [hc EXCEPT ![t] = hc_returned(hc[t])]
    /\ UNCHANGED <<running, rpc_vars, gen_vars, mon_vars, main_vars>>

check_network_health(t) ==
    \/ hc_probe(t)
    \/ hc_compare(t)
    \/ hc_load(t)
    \/ hc_delta(t)
    \/ hc_store(t)
    \/ hc_assign(t)

\* ----------------------------------------------------------------------
\* signal_handler and monitor_blockchain
\* ----------------------------------------------------------------------

\* SIGINT / SIGTERM: running = False
signal_handler ==
    /\ running
    /\ running' = FALSE
    /\ UNCHANGED <<stats, rpc_vars, gen_vars, hc, mon_vars, main_vars>>

\* The monitor loop entered whatever the flag says.
mon_test_unconditional ==
    /\ pc_mon = "test"
    /\ pc_mon' = "check"
    /\ hc' = [hc EXCEPT !["monitor"] = hc_entry]
    /\ UNCHANGED <<running, stats, rpc_vars, gen_vars, mon_warn, mon_sleep, main_vars>>

\* while running: ... check_network_health()
mon_test ==
    /\ pc_mon = "test"
    /\ IF running
       THEN /\ pc_mon' = "check"
            /\ hc' = [hc EXCEPT !["monitor"] = hc_entry]
       ELSE /\ pc_mon' = "done"
            /\ hc' = hc
    /\ UNCHANGED <<running, stats, rpc_vars, gen_vars, mon_warn, mon_sleep, main_vars>>

\* Lines 222-231: the tuple is unpacked, the block line is logged when the
\* height is positive, and the sleep is chosen.  check_network_health
\* catches every Exception itself and log_message and time.sleep are taken
\* not to raise, so the handler of lines 233-235 has nothing to catch.
mon_decide ==
    /\ pc_mon = "check"
    /\ hc["monitor"].pc = "done"
    /\ LET ret == hc["monitor"].ret
           down == ~ret.validator_ok /\ ~ret.sequencer_ok
       IN  /\ mon_warn' = down
           /\ mon_sleep' = IF down THEN 30 ELSE 60
    /\ pc_mon' = "sleep"
    /\ hc' = [hc EXCEPT !["monitor"] = hc_idle]
    /\ UNCHANGED <<running, stats, rpc_vars, gen_vars, main_vars>>

\* time.sleep returns
mon_wake ==
    /\ pc_mon = "sleep"
    /\ pc_mon' = "test"
    /\ UNCHANGED <<running, stats, rpc_vars, gen_vars, hc, mon_warn, mon_sleep, main_vars>>

monitor_blockchain ==
    \/ mon_test
    \/ check_network_health("monitor")
    \/ mon_decide
    \/ mon_wake

\* ----------------------------------------------------------------------
\* send_transaction
\* ----------------------------------------------------------------------

\* endpoints with the sequencer listed first.
endpoints_sequencer_first == <<"Sequencer", "Validator">>

\* endpoints = [("Validator", RPC_URL), ("Sequencer", SEQUENCER_URL)]
endpoints == <<"Validator", "Sequencer">>

\* The frame of a call: pc, who called (the main loop or a burst), the index
\* of the endpoint the for loop is at, the endpoints send_rpc_request was
\* called for, the local `result`, and the value returned.
tx_idle ==
    [pc |-> "idle", caller |-> "", ep |-> 1, contacted |-> <<>>,
     result |-> None, ret |-> None]

tx_entry(caller) == [tx_idle EXCEPT !.pc = "begin", !.caller = caller]

\* stats["total_transactions"] += 1
tx_begin ==
    /\ tx.pc = "begin"
    /\ stats' = [stats EXCEPT !.total_transactions = @ + 1]
    /\ tx' = [tx EXCEPT !.pc = "try"]
    /\ UNCHANGED <<running, rpc_vars, gen_vars, hc, mon_vars, ENABLE_BURST_MODE, pc_main,
                   transaction_count, burst, main_error, final_stats_printed>>

\* One iteration of `for endpoint_name, url in endpoints`.  A scalar body
\* raises TypeError at line 173; a result that is no string raises it at
\* line 178, after the success counter was incremented.  Either exception
\* leaves send_transaction and reaches main's `except Exception`.
tx_try ==
    /\ tx.pc = "try"
    /\ \E r \in RpcResults :
          LET called == [tx EXCEPT !.contacted = Append(@, endpoints[tx.ep]),
                                   !.result = r]
          IN  IF raises_in(r)
              THEN /\ tx' = [called EXCEPT !.pc = "raised"]
                   /\ pc_main' = "except"
                   /\ stats' = stats
              ELSE IF has_result(r)
              THEN /\ stats' = [stats EXCEPT !.successful_transactions = @ + 1]
                   /\ IF r.result.str
                      THEN /\ tx' = [called EXCEPT !.pc = "returned",
                                                   !.ret = r.result]
                           /\ pc_main' = pc_main
                      ELSE /\ tx' = [called EXCEPT !.pc = "raised"]
                           /\ pc_main' = "except"
              ELSE /\ tx' = IF tx.ep < Len(endpoints)
                            THEN [called EXCEPT !.ep = @ + 1]
                            ELSE [called EXCEPT !.pc = "fail"]
                   /\ pc_main' = pc_main
                   /\ stats' = stats
    /\ UNCHANGED <<running, rpc_vars, gen_vars, hc, mon_vars, ENABLE_BURST_MODE,
                   transaction_count, burst, main_error, final_stats_printed>>

\* tx_fail without the increment of the failure counter.
tx_fail_uncounted ==
    /\ tx.pc = "fail"
    /\ tx' = [tx EXCEPT !.pc = "returned", !.ret = None]
    /\ UNCHANGED <<running, stats, rpc_vars, gen_vars, hc, mon_vars, ENABLE_BURST_MODE,
                   pc_main, transaction_count, burst, main_error,
                   final_stats_printed>>

\* stats["failed_transactions"] += 1; return None
tx_fail ==
    /\ tx.pc = "fail"
    /\ stats' = [stats EXCEPT !.failed_transactions = @ + 1]
    /\ tx' = [tx EXCEPT !.pc = "returned", !.ret = None]
    /\ UNCHANGED <<running, rpc_vars, gen_vars, hc, mon_vars, ENABLE_BURST_MODE, pc_main,
                   transaction_count, burst, main_error, final_stats_printed>>

send_transaction ==
    \/ tx_begin
    \/ tx_try
    \/ tx_fail

\* ----------------------------------------------------------------------
\* main: the STARTUP wait loop
\* ----------------------------------------------------------------------

\* while running: validator_ok, sequencer_ok, _ = check_network_health()
main_startup_test ==
    /\ pc_main = "startup_test"
    /\ IF running
       THEN /\ pc_main' = "startup_check"
            /\ hc' = [hc EXCEPT !["main"] = hc_entry]
       ELSE /\ pc_main' = "startup_exit"
            /\ hc' = hc
    /\ UNCHANGED <<running, stats, rpc_vars, gen_vars, mon_vars, ENABLE_BURST_MODE,
                   transaction_count, tx, burst, main_error, final_stats_printed>>

\* The wait loop left at the first answer, whatever the probes said.
main_startup_decide_first ==
    /\ pc_main = "startup_check"
    /\ hc["main"].pc = "done"
    /\ pc_main' = "startup_exit"
    /\ hc' = hc
    /\ UNCHANGED <<running, stats, rpc_vars, gen_vars, mon_vars, ENABLE_BURST_MODE,
                   transaction_count, tx, burst, main_error, final_stats_printed>>

\* if validator_ok or sequencer_ok: break; else time.sleep(10).
\* validator_ok and sequencer_ok stay in main's frame until line 262.
main_startup_decide ==
    /\ pc_main = "startup_check"
    /\ hc["main"].pc = "done"
    /\ IF hc["main"].ret.validator_ok \/ hc["main"].ret.sequencer_ok
       THEN /\ pc_main' = "startup_exit"
            /\ hc' = hc
       ELSE /\ pc_main' = "startup_sleep"
            /\ hc' = [hc EXCEPT !["main"] = hc_idle]
    /\ UNCHANGED <<running, stats, rpc_vars, gen_vars, mon_vars, ENABLE_BURST_MODE,
                   transaction_count, tx, burst, main_error, final_stats_printed>>

\* time.sleep(10) returns
main_startup_wake ==
    /\ pc_main = "startup_sleep"
    /\ pc_main' = "startup_test"
    /\ UNCHANGED <<running, stats, rpc_vars, gen_vars, hc, mon_vars, ENABLE_BURST_MODE,
                   transaction_count, tx, burst, main_error, final_stats_printed>>

\* if not running: return; transaction_count = 0
main_startup_exit ==
    /\ pc_main = "startup_exit"
    /\ IF ~running
       THEN /\ pc_main' = "done"
            /\ transaction_count' = transaction_count
       ELSE /\ pc_main' = "loop_test"
            /\ transaction_count' = 0
    /\ hc' = [hc EXCEPT !["main"] = hc_idle]
    /\ UNCHANGED <<running, stats, rpc_vars, gen_vars, mon_vars, ENABLE_BURST_MODE,
                   tx, burst, main_error, final_stats_printed>>

\* ----------------------------------------------------------------------
\* main: the generation loop and generate_burst_activity
\* ----------------------------------------------------------------------

burst_idle == [burst_size |-> 0, i |-> 0]

\* while running: generate_realistic_transaction(); send_transaction(...).
\* The model follows the loop for at most `limit` iterations.
main_loop_test(limit) ==
    /\ pc_main = "loop_test"
    /\ IF running
       THEN /\ transaction_count < limit
            /\ pc_main' = "send"
            /\ tx' = tx_entry("main")
       ELSE /\ pc_main' = "finally"
            /\ tx' = tx
    /\ UNCHANGED <<running, stats, rpc_vars, gen_vars, hc, mon_vars, ENABLE_BURST_MODE,
                   transaction_count, burst, main_error, final_stats_printed>>

\* transaction_count += 1; if transaction_count % 20 == 0: burst
main_sent ==
    /\ pc_main = "send"
    /\ tx.pc = "returned"
    /\ tx' = tx_idle
    /\ transaction_count' = transaction_count + 1
    /\ pc_main' = IF transaction_count' % 20 = 0 THEN "burst" ELSE "stats_check"
    /\ UNCHANGED <<running, stats, rpc_vars, gen_vars, hc, mon_vars, ENABLE_BURST_MODE,
                   burst, main_error, final_stats_printed>>

\* generate_burst_activity up to its for loop: nothing when burst mode is
\* off or random.random() >= 0.05, else burst_size = random.randint(5, 15)
burst_begin ==
    /\ pc_main = "burst"
    /\ IF ~ENABLE_BURST_MODE
       THEN pc_main' = "stats_check" /\ burst' = burst
       ELSE \/ pc_main' = "stats_check" /\ burst' = burst
            \/ \E n \in 5..15 :
                  pc_main' = "burst_loop" /\ burst' = [burst_size |-> n, i |-> 0]
    /\ UNCHANGED <<running, stats, rpc_vars, gen_vars, hc, mon_vars, ENABLE_BURST_MODE,
                   transaction_count, tx, main_error, final_stats_printed>>

\* burst_loop without the flag test of lines 199-200.
burst_loop_unchecked ==
    /\ pc_main = "burst_loop"
    /\ IF burst.i < burst.burst_size
       THEN /\ pc_main' = "burst_send"
            /\ tx' = tx_entry("burst")
            /\ burst' = burst
       ELSE /\ pc_main' = "stats_check"
            /\ tx' = tx
            /\ burst' = burst_idle
    /\ UNCHANGED <<running, stats, rpc_vars, gen_vars, hc, mon_vars, ENABLE_BURST_MODE,
                   transaction_count, main_error, final_stats_printed>>

\* for i in range(burst_size): if not running: break; send_transaction(...)
burst_loop ==
    /\ pc_main = "burst_loop"
    /\ IF burst.i < burst.burst_size /\ running
       THEN /\ pc_main' = "burst_send"
            /\ tx' = tx_entry("burst")
            /\ burst' = burst
       ELSE /\ pc_main' = "stats_check"
            /\ tx' = tx
            /\ burst' = burst_idle
    /\ UNCHANGED <<running, stats, rpc_vars, gen_vars, hc, mon_vars, ENABLE_BURST_MODE,
                   transaction_count, main_error, final_stats_printed>>

\* burst_sent with the burst's transaction added to main's count.
burst_sent_counted ==
    /\ pc_main = "burst_send"
    /\ tx.pc = "returned"
    /\ tx' = tx_idle
    /\ burst' = [burst EXCEPT !.i = @ + 1]
    /\ transaction_count' = transaction_count + 1
    /\ pc_main' = "burst_loop"
    /\ UNCHANGED <<running, stats, rpc_vars, gen_vars, hc, mon_vars, ENABLE_BURST_MODE,
                   main_error, final_stats_printed>>

\* time.sleep(0.5) and the next i
burst_sent ==
    /\ pc_main = "burst_send"
    /\ tx.pc = "returned"
    /\ tx' = tx_idle
    /\ burst' = [burst EXCEPT !.i = @ + 1]
    /\ pc_main' = "burst_loop"
    /\ UNCHANGED <<running, stats, rpc_vars, gen_vars, hc, mon_vars, ENABLE_BURST_MODE,
                   transaction_count, main_error, final_stats_printed>>

generate_burst_activity ==
    \/ burst_begin
    \/ burst_loop
    \/ burst_sent

\* if time.time() - last_stats_time > 300: print_statistics().  The call
\* only reads stats and prints, whatever the clock says.
main_periodic_stats ==
    /\ pc_main = "stats_check"
    /\ pc_main' = "sleep"
    /\ UNCHANGED <<running, stats, rpc_vars, gen_vars, hc, mon_vars, ENABLE_BURST_MODE,
                   transaction_count, tx, burst, main_error, final_stats_printed>>

\* time.sleep(max(1, sleep_time)) returns
main_wake ==
    /\ pc_main = "sleep"
    /\ pc_main' = "loop_test"
    /\ UNCHANGED <<running, stats, rpc_vars, gen_vars, hc, mon_vars, ENABLE_BURST_MODE,
                   transaction_count, tx, burst, main_error, final_stats_printed>>

\* main_except as if the try statement were inside the while loop.
main_except_in_loop ==
    /\ pc_main = "except"
    /\ main_error' = TRUE
    /\ pc_main' = "loop_test"
    /\ UNCHANGED <<running, stats, rpc_vars, gen_vars, hc, mon_vars, ENABLE_BURST_MODE,
                   transaction_count, tx, burst, final_stats_printed>>

\* except Exception as e: log "Unexpected error"
main_except ==
    /\ pc_main = "except"
    /\ main_error' = TRUE
    /\ pc_main' = "finally"
    /\ UNCHANGED <<running, stats, rpc_vars, gen_vars, hc, mon_vars, ENABLE_BURST_MODE,
                   transaction_count, tx, burst, final_stats_printed>>

\* finally: print_statistics(); log "stopped"; main returns
main_finally ==
    /\ pc_main = "finally"
    /\ final_stats_printed' = TRUE
    /\ pc_main' = "done"
    /\ UNCHANGED <<running, stats, rpc_vars, gen_vars, hc, mon_vars, ENABLE_BURST_MODE,
                   transaction_count, tx, burst, main_error>>

main(limit) ==
    \/ main_startup_test
    \/ check_network_health("main")
    \/ main_startup_decide
    \/ main_startup_wake
    \/ main_startup_exit
    \/ main_loop_test(limit)
    \/ send_transaction
    \/ main_sent
    \/ generate_burst_activity
    \/ main_periodic_stats
    \/ main_wake
    \/ main_except
    \/ main_finally

\* ----------------------------------------------------------------------
\* generate_realistic_transaction (lines 124-159), as a function of the
\* account pool, the pattern table and the numbers the generator draws.
\* A draw is a number in 0..MaxRand; random.choice, random.randint and
\* random.choices reduce it to the range they were asked for.
\* The gasPrice field (hex of a draw in 10^9..5*10^10, line 143) is beyond
\* the integers of the model checker and is not part of the record.
\* ----------------------------------------------------------------------

\* Largest raw draw of the random number generator.
MaxRand == 2
\* Largest bound of an amount range in the pattern tables of the model.
MaxAmount == 17
\* The while loop of lines 136-137 is followed through this many redraws.
MaxResample == 1

randbelow(n, u) == u % n

\* random.choice(seq)
choice(seq, u) == seq[randbelow(Len(seq), u) + 1]

\* random.randint(a, b), both ends included
randint(a, b, u) == a + randbelow((b - a) + 1, u)

RECURSIVE cum_weights(_, _)
cum_weights(patterns, k) ==
    IF k = 0 THEN 0 ELSE cum_weights(patterns, k - 1) + patterns[k].weight

\* random.choices(patterns, weights)[0]: the first pattern whose cumulative
\* weight exceeds the draw scaled to the total weight.
choices_index(patterns, u) ==
    LET x == randbelow(cum_weights(patterns, Len(patterns)), u)
    IN  CHOOSE i \in 1..Len(patterns) :
            /\ cum_weights(patterns, i - 1) <= x
            /\ x < cum_weights(patterns, i)

\* A receiver that is accepted as drawn (no loop of lines 136-137).
resample_never(accounts, from_account, to_account, draws, k) ==
    [ok |-> TRUE, to_account |-> to_account]

\* Lines 136-137: redraw the receiver while its address is the sender's.
\* ok = FALSE: the loop is still running when the draws are used up.
RECURSIVE resample(_, _, _, _, _)
resample(accounts, from_account, to_account, draws, k) ==
    IF to_account.address # from_account.address
    THEN [ok |-> TRUE, to_account |-> to_account]
    ELSE IF k > Len(draws)
    THEN [ok |-> FALSE, to_account |-> to_account]
    ELSE resample(accounts, from_account, choice(accounts, draws[k]),
                  draws, k + 1)

\* "00" * n
zeros(n) == [i \in 1..(2 * n) |-> "0"]

generate_realistic_transaction(accounts, patterns, rng) ==
    LET pattern == patterns[choices_index(patterns, rng.pattern)]
        from_account == choice(accounts, rng.from)
        r == resample(accounts, from_account,
                      choice(accounts, rng.to[1]), rng.to, 2)
        min_amount == pattern.amount_range[1]
        max_amount == pattern.amount_range[2]
        amount == randint(min_amount, max_amount, rng.amount)
        gas_limit == IF pattern.type = "contract_call"
                     THEN randint(50000, 200000, rng.gas) ELSE 21000
    IN  IF ~r.ok THEN [kind |-> "looping"]
        ELSE [kind |-> "tuple",
              tx |-> [from |-> from_account.address,
                      to |-> r.to_account.address,
                      value |-> hex(amount),
                      gas |-> hex(gas_limit),
                      data |-> IF pattern.type # "contract_call"
                               THEN <<"0", "x">>
                               ELSE <<"0", "x">>
                                        \o zeros(randint(0, 100, rng.data))],
              tx_type |-> pattern.type,
              amount |-> amount]

Account(a, k) == [address |-> a, private_key |-> k]

\* Account pools with at least two distinct addresses: two accounts, three
\* accounts (the shape of ACCOUNTS, lines 24-37), and three accounts of
\* which two share an address.
AccountPools ==
    { <<Account("A", "ka"), Account("B", "kb")>>,
      <<Account("A", "ka"), Account("B", "kb"), Account("C", "kc")>>,
      <<Account("A", "ka"), Account("A", "kd"), Account("B", "kb")>> }

AmountBounds == {0, 1, 10, MaxAmount}

AmountRanges == { r \in AmountBounds \X AmountBounds : r[1] <= r[2] }

Pattern(t, w, r) == [type |-> t, weight |-> w, amount_range |-> r]

\* Pattern tables (the shape of TX_PATTERNS, lines 40-45): a single
\* transfer pattern of range (10, 10), and a transfer pattern of weight 2
\* followed by a contract_call pattern of weight 1.
PatternTables ==
    { <<Pattern("transfer", 60, <<10, 10>>)>> } \cup
    { <<Pattern("transfer", 2, r), Pattern("contract_call", 1, <<0, 10>>)>> :
        r \in AmountRanges }

Draws == 0..MaxRand

RngDraws ==
    [pattern : Draws, from : Draws, to : [1..(1 + MaxResample) -> Draws],
     amount : Draws, gas : Draws, data : Draws]

GenInputs == [ACCOUNTS : AccountPools, TX_PATTERNS : PatternTables, rng : RngDraws]

gen_idle ==
    [ACCOUNTS |-> <<Account("A", "ka"), Account("B", "kb")>>,
     TX_PATTERNS |-> <<Pattern("transfer", 60, <<10, 10>>)>>,
     rng |-> [pattern |-> 0, from |-> 0, to |-> [i \in 1..(1 + MaxResample) |-> 0],
              amount |-> 0, gas |-> 0, data |-> 0]]

generate ==
    /\ gen_out = None
    /\ gen_out' = generate_realistic_transaction(gen_in.ACCOUNTS,
                                                 gen_in.TX_PATTERNS, gen_in.rng)
    /\ UNCHANGED <<running, stats, rpc_vars, hc, mon_vars, main_vars, gen_in>>

stats0 ==
    [total_transactions |-> 0, successful_transactions |-> 0,
     failed_transactions |-> 0, last_block_check |-> 0, blocks_observed |-> 0]

\* The state when main has installed the signal handlers and started the
\* monitor thread (lines 241-251).
Init ==
    /\ running = TRUE
    /\ stats = stats0
    /\ rpc_outs = [i \in 1..max_retries |-> CHOOSE o \in Outcomes : o.exc]
    /\ rpc_call = None
    /\ hc = [t \in Threads |-> hc_idle]
    /\ pc_mon = "test"
    /\ mon_warn = FALSE
    /\ mon_sleep = 0
    /\ ENABLE_BURST_MODE \in BOOLEAN
    /\ pc_main = "startup_test"
    /\ transaction_count = 0
    /\ tx = tx_idle
    /\ burst = burst_idle
    /\ main_error = FALSE
    /\ final_stats_printed = FALSE
    /\ gen_in = gen_idle
    /\ gen_out = None

\* ----------------------------------------------------------------------
\* SpecRpc: one call of send_rpc_request
\* ----------------------------------------------------------------------

InitRpc ==
    /\ running = TRUE
    /\ stats = stats0
    /\ rpc_outs \in OutcomeSeqs
    /\ rpc_call = None
    /\ hc = [t \in Threads |-> hc_idle]
    /\ pc_mon = "test"
    /\ mon_warn = FALSE
    /\ mon_sleep = 0
    /\ ENABLE_BURST_MODE = TRUE
    /\ pc_main = "startup_test"
    /\ transaction_count = 0
    /\ tx = tx_idle
    /\ burst = burst_idle
    /\ main_error = FALSE
    /\ final_stats_printed = FALSE
    /\ gen_in = gen_idle
    /\ gen_out = None

rpc_request ==
    /\ rpc_call = None
    /\ rpc_call' = send_rpc_request(rpc_outs)
    /\ UNCHANGED <<running, stats, rpc_outs, hc, mon_vars, main_vars, gen_vars>>

NextRpc == rpc_request

SpecRpc == InitRpc /\ [][NextRpc]_vars

\* ----------------------------------------------------------------------
\* SpecGen: one call of generate_realistic_transaction, for every pool,
\* pattern table and draw
\* ----------------------------------------------------------------------

InitGen ==
    /\ running = TRUE
    /\ stats = stats0
    /\ rpc_outs = [i \in 1..max_retries |-> CHOOSE o \in Outcomes : o.exc]
    /\ rpc_call = None
    /\ hc = [t \in Threads |-> hc_idle]
    /\ pc_mon = "test"
    /\ mon_warn = FALSE
    /\ mon_sleep = 0
    /\ ENABLE_BURST_MODE = TRUE
    /\ pc_main = "startup_test"
    /\ transaction_count = 0
    /\ tx = tx_idle
    /\ burst = burst_idle
    /\ main_error = FALSE
    /\ final_stats_printed = FALSE
    /\ gen_in \in GenInputs
    /\ gen_out = None

NextGen == generate

SpecGen == InitGen /\ [][NextGen]_vars

\* ----------------------------------------------------------------------
\* SpecMonitor: the monitor thread and the signal handler
\* ----------------------------------------------------------------------

NextMonitor ==
    \/ signal_handler
    \/ monitor_blockchain

SpecMonitor == Init /\ [][NextMonitor]_vars

\* ----------------------------------------------------------------------
\* SpecMain: the main thread and the signal handler
\* ----------------------------------------------------------------------

\* Iterations of the generation loop SpecMain follows.
MaxTxCount == 20

NextMain ==
    \/ signal_handler
    \/ main(MaxTxCount)

SpecMain == Init /\ [][NextMain]_vars

\* ----------------------------------------------------------------------
\* SpecBoth: the two threads and the signal handler, interleaved at every
\* step, through STARTUP and the first MaxConcTx iterations of the
\* generation loop (bursts start at the 20th iteration, past this horizon).
\* ----------------------------------------------------------------------

MaxConcTx == 1

NextBoth ==
    \/ signal_handler
    \/ monitor_blockchain
    \/ main_startup_test
    \/ check_network_health("main")
    \/ main_startup_decide
    \/ main_startup_wake
    \/ main_startup_exit
    \/ main_loop_test(MaxConcTx)
    \/ send_transaction
    \/ main_sent
    \/ main_periodic_stats
    \/ main_wake
    \/ main_except
    \/ main_finally

\* ENABLE_BURST_MODE has its default: nothing within the horizon reads it.
InitBoth == Init /\ ENABLE_BURST_MODE = TRUE

SpecBoth == InitBoth /\ [][NextBoth]_vars

\* SpecBoth with every RPC call and every sleep in progress completing: each
\* thread that can take a step eventually takes one.  Nothing obliges a
\* signal to arrive.
SpecBothFair ==
    /\ InitBoth
    /\ [][NextBoth]_vars
    /\ WF_vars(main(MaxConcTx))
    /\ WF_vars(monitor_blockchain)

\* ----------------------------------------------------------------------
\* Claims about send_rpc_request (SpecRpc)
\* ----------------------------------------------------------------------

rpc_done == rpc_call # None

\* Attempt i was made and got a response whose status is not 200.
rpc_status_failed(i) ==
    i <= rpc_call.posts /\ ~rpc_outs[i].exc /\ rpc_outs[i].status # 200

\* C4: when every POST of a call raises a transport exception, the call
\* makes exactly 3 POSTs, sleeps 1s after the first failure and 2s after the
\* second (non-decreasing delays), does not sleep after the last, and
\* returns none.
C4_TransportFailureThreeAttempts ==
    (rpc_done /\ \A i \in 1..max_retries : rpc_outs[i].exc) =>
        /\ rpc_call.posts = 3
        /\ rpc_call.sleeps = <<1, 2>>
        /\ \A i, j \in 1..Len(rpc_call.sleeps) :
              i <= j => rpc_call.sleeps[i] <= rpc_call.sleeps[j]
        /\ rpc_call.ret = None

C4_Witness ==
    /\ rpc_done
    /\ \A i \in 1..max_retries : rpc_outs[i].exc
    /\ rpc_call.posts = 3

\* C5 as stated: a response with a non-200 status causes no further POST
\* attempt within the same call.
C5_NoAttemptAfterHttpStatus ==
    rpc_done =>
        \A i \in 1..max_retries : rpc_status_failed(i) => rpc_call.posts = i

\* C5 amended: a non-200 response on the first or second attempt is followed
\* by the next POST attempt, and the call sleeps only after transport
\* failures: once after each failed attempt that is not the last.
C5_HttpStatusRetriedWithoutBackoff ==
    rpc_done =>
        /\ \A i \in 1..(max_retries - 1) :
              rpc_status_failed(i) => rpc_call.posts > i
        /\ Len(rpc_call.sleeps) =
              Cardinality({i \in 1..(max_retries - 1) :
                              i <= rpc_call.posts /\ rpc_outs[i].exc})

C5_Witness ==
    /\ rpc_done
    /\ rpc_status_failed(1)
    /\ rpc_outs[2].exc
    /\ rpc_call.posts = 3
    /\ rpc_call.sleeps = <<2>>

\* C6: when every POST is answered with HTTP 500, the call logs exactly
\* three WARN lines (and no ERROR line) and returns none.
C6_Http500ThreeWarnings ==
    (rpc_done /\ \A i \in 1..max_retries :
                    ~rpc_outs[i].exc /\ rpc_outs[i].status = 500) =>
        /\ rpc_call.warns = 3
        /\ rpc_call.errors = 0
        /\ rpc_call.ret = None

C6_Witness ==
    /\ rpc_done
    /\ \A i \in 1..max_retries : ~rpc_outs[i].exc /\ rpc_outs[i].status = 500
    /\ rpc_call.warns = 3

\* ----------------------------------------------------------------------
\* Claims about the health monitor (SpecMonitor)
\* ----------------------------------------------------------------------

\* C3: with health checks run one at a time, blocks_observed and
\* last_block_check never decrease; they change only in a check whose
\* observed height exceeds the watermark, which adds observed - watermark to
\* blocks_observed and sets the watermark to the observed height; a check
\* whose height does not exceed the watermark (a regression, a failed call
\* read as height 0) returns with both unchanged.
C3_WatermarkMonotonic ==
    [][LET f == hc["monitor"]
           g == hc'["monitor"]
           cur == f.current_block
       IN  /\ stats'.blocks_observed >= stats.blocks_observed
           /\ stats'.last_block_check >= stats.last_block_check
           /\ stats'.blocks_observed # stats.blocks_observed =>
                 /\ cur > stats.last_block_check
                 /\ stats'.blocks_observed =
                       stats.blocks_observed + (cur - stats.last_block_check)
           /\ stats'.last_block_check # stats.last_block_check =>
                 /\ cur > stats.last_block_check
                 /\ stats'.last_block_check = cur
           /\ (f.pc = "compare" /\ g # f /\ cur <= stats.last_block_check) =>
                 g.pc = "done" /\ stats' = stats
           /\ (f.pc # "done" /\ g.pc = "done" /\ ~g.exc) =>
                 /\ stats'.last_block_check =
                       IF g.ret.current_block > stats.last_block_check
                       THEN g.ret.current_block ELSE stats.last_block_check
                 /\ stats'.blocks_observed = stats'.last_block_check
           /\ (f.pc # "done" /\ g.pc = "done" /\ g.exc) => stats' = stats
      ]_vars

\* A check that saw a height below the watermark has returned.
C3_Witness ==
    /\ hc["monitor"].pc = "done"
    /\ ~hc["monitor"].exc
    /\ hc["monitor"].ret.current_block = 1
    /\ stats.last_block_check = 2
    /\ stats.blocks_observed = 2

\* C8 as stated: in each monitor iteration, if both liveness probes failed
\* the monitor logs the all-endpoints-down warning and sleeps 30s; if at
\* least one probe succeeded it logs no such warning and sleeps 60s.
C8_SleepFollowsProbes ==
    [][(pc_mon = "check" /\ pc_mon' = "sleep") =>
          IF ~hc["monitor"].validator_ok /\ ~hc["monitor"].sequencer_ok
          THEN mon_warn' /\ mon_sleep' = 30
          ELSE ~mon_warn' /\ mon_sleep' = 60
      ]_vars

\* C9 as stated: when an exception is raised during a poll cycle (inside
\* check_network_health), the monitor then sleeps 60s before its next poll.
C9_ExceptionSleeps60 ==
    [][(pc_mon = "check" /\ pc_mon' = "sleep" /\ hc["monitor"].exc) =>
          mon_sleep' = 60
      ]_vars

\* ----------------------------------------------------------------------
\* Claims about send_transaction and main (SpecMain)
\* ----------------------------------------------------------------------

\* Line 163 has run and the call has neither returned nor raised.
tx_in_progress(f) == f.pc \in {"try", "fail"}

\* C1: every send_transaction call increments total_transactions exactly
\* once and exactly one of successful_transactions / failed_transactions
\* exactly once, whatever the endpoints answer among result, error field
\* and none; so total = successful + failed when no call is in progress and
\* total = successful + failed + 1 during a call.
C1_CountersPerCall ==
    [][LET total == stats.total_transactions
           ok == stats.successful_transactions
           failed == stats.failed_transactions
           started == tx.pc = "begin" /\ tx'.pc = "try"
           ended == tx_in_progress(tx) /\ ~tx_in_progress(tx')
       IN  /\ started =>
                 /\ stats'.total_transactions = total + 1
                 /\ stats'.successful_transactions = ok
                 /\ stats'.failed_transactions = failed
           /\ (ended /\ ~raises_in(tx'.result)) =>
                 /\ stats'.total_transactions = total
                 /\ \/ /\ stats'.successful_transactions = ok + 1
                       /\ stats'.failed_transactions = failed
                    \/ /\ stats'.successful_transactions = ok
                       /\ stats'.failed_transactions = failed + 1
           /\ (~started /\ ~ended) =>
                 /\ stats'.total_transactions = total
                 /\ stats'.successful_transactions = ok
                 /\ stats'.failed_transactions = failed
           /\ ~raises_in(tx'.result) =>
                 stats'.total_transactions =
                     stats'.successful_transactions + stats'.failed_transactions
                         + (IF tx_in_progress(tx') THEN 1 ELSE 0)
      ]_vars

\* The second call has failed on both endpoints after a first success.
C1_Witness ==
    /\ tx.pc = "returned"
    /\ tx.ret = None
    /\ stats.total_transactions = 2
    /\ stats.successful_transactions = 1
    /\ stats.failed_transactions = 1

C7_FinalStatsBeforeReturn ==
    pc_main = "done" => final_stats_printed

\* ----------------------------------------------------------------------
\* Claims about both loops (SpecBoth)
\* ----------------------------------------------------------------------

\* C10 as stated: after an unexpected exception in an iteration of the
\* monitor loop or of the generation loop is caught and logged, the loop
\* goes on iterating while the running flag is set: neither loop ends with
\* the flag set.
C10_LoopsContinueAfterException ==
    /\ (main_error /\ running) => pc_main \notin {"finally", "done"}
    /\ pc_mon = "done" => ~running

\* C10 amended: an exception raised in a monitor iteration (inside
\* check_network_health) is caught within the iteration and the monitor
\* loop ends only on the cleared flag; an unexpected exception in the
\* generation loop is caught and logged by the handler around the whole
\* loop, which ends the loop: main prints the final statistics and returns
\* although the flag may still be set.  Without an exception the generation
\* loop ends only on the cleared flag.
C10_MonitorContinuesMainStops ==
    /\ hc["monitor"].exc => pc_mon = "check"
    /\ pc_mon = "done" => ~running
    /\ main_error => pc_main \in {"finally", "done"}
    /\ (main_error /\ pc_main = "done") => final_stats_printed
    /\ (pc_main \in {"finally", "done"} /\ ~main_error) => ~running

\* The monitor has caught an exception in its health check and is still in
\* its loop; main has ended on an exception with the flag still set.
C10_Witness ==
    /\ hc["monitor"].exc
    /\ pc_mon = "check"
    /\ main_error
    /\ pc_main = "done"
    /\ final_stats_printed
    /\ running

\* ----------------------------------------------------------------------
\* generate_realistic_transaction (SpecGen)
\* ----------------------------------------------------------------------

gen_addresses == { gen_in.ACCOUNTS[i].address : i \in 1..Len(gen_in.ACCOUNTS) }

gen_pattern == gen_in.TX_PATTERNS[choices_index(gen_in.TX_PATTERNS, gen_in.rng.pattern)]

\* C11: a returned transaction has its sender and its receiver in the pool,
\* the two differ, and its value (the hex string read back as a number, and
\* the amount returned beside it) lies in the selected pattern's inclusive
\* range; with the pool [A, B] and the single pattern of range (10, 10) the
\* value is 10 and sender and receiver are A and B.
C11_SenderReceiverAmount ==
    gen_out.kind = "tuple" =>
        /\ gen_out.tx.from \in gen_addresses
        /\ gen_out.tx.to \in gen_addresses
        /\ gen_out.tx.from # gen_out.tx.to
        /\ int16(gen_out.tx.value).ok
        /\ int16(gen_out.tx.value).val >= gen_pattern.amount_range[1]
        /\ int16(gen_out.tx.value).val <= gen_pattern.amount_range[2]
        /\ gen_out.amount = int16(gen_out.tx.value).val
        /\ gen_out.tx_type = gen_pattern.type
        /\ ( /\ gen_in.ACCOUNTS = <<Account("A", "ka"), Account("B", "kb")>>
             /\ gen_in.TX_PATTERNS = <<Pattern("transfer", 60, <<10, 10>>)>> )
           => /\ gen_out.tx.value = hex(10)
              /\ {gen_out.tx.from, gen_out.tx.to} = {"A", "B"}

\* The pool [A, B] with the (10, 10) pattern, the receiver first drawn equal
\* to the sender and redrawn.
C11_Witness ==
    /\ gen_out.kind = "tuple"
    /\ gen_in.ACCOUNTS = <<Account("A", "ka"), Account("B", "kb")>>
    /\ gen_in.TX_PATTERNS = <<Pattern("transfer", 60, <<10, 10>>)>>
    /\ choice(gen_in.ACCOUNTS, gen_in.rng.to[1]).address
           = choice(gen_in.ACCOUNTS, gen_in.rng.from).address
    /\ gen_out.tx.value = <<"0", "x", "a">>

\* ----------------------------------------------------------------------
\* Health checks of the two threads interleaved (SpecBoth)
\* ----------------------------------------------------------------------

\* Thread t is between the comparison of line 114 and the return.
hc_updating(t) == hc[t].pc \in {"load", "delta", "store", "assign"}

\* C12: with the comparison, the read-modify-write of blocks_observed and
\* the assignment of last_block_check of the two threads interleaved, neither
\* field ever decreases, and whenever neither thread is inside an update
\* blocks_observed equals last_block_check.
C12_NoLostUpdate ==
    /\ []((~hc_updating("main") /\ ~hc_updating("monitor")) =>
             stats.blocks_observed = stats.last_block_check)
    /\ [][/\ stats'.blocks_observed >= stats.blocks_observed
          /\ stats'.last_block_check >= stats.last_block_check]_vars

\* ----------------------------------------------------------------------
\* STARTUP gates the generation loop (SpecMain)
\* ----------------------------------------------------------------------

StartupPcs == {"startup_test", "startup_check", "startup_sleep", "startup_exit"}

\* The health check main made last in STARTUP reported an endpoint alive.
main_saw_alive ==
    /\ hc["main"].ret.kind = "tuple"
    /\ hc["main"].ret.validator_ok \/ hc["main"].ret.sequencer_ok

\* C13: while main is in STARTUP no eth_sendTransaction has been issued and
\* total_transactions is 0; main enters the generation loop only from a
\* health check of its own that reported the validator or the sequencer
\* alive; when the flag is cleared first, main returns, and a returned main
\* submits nothing.
C13_NoTransactionBeforeAlive ==
    [][/\ pc_main \in StartupPcs =>
             /\ stats.total_transactions = 0
             /\ tx = tx_idle
       /\ (pc_main = "startup_exit" /\ pc_main' # pc_main) =>
             /\ ~running \/ main_saw_alive
             /\ pc_main' = IF running THEN "loop_test" ELSE "done"
       /\ (pc_main \in StartupPcs /\ pc_main' \notin StartupPcs) =>
             pc_main = "startup_exit"
       /\ (pc_main # "startup_exit" /\ pc_main' = "startup_exit") =>
             ~running \/ main_saw_alive'
       /\ ~running => ~running'
       /\ pc_main = "done" =>
             /\ pc_main' = "done"
             /\ tx' = tx
             /\ stats'.total_transactions = stats.total_transactions
      ]_vars

\* Main is leaving STARTUP for the loop after a check that found only the
\* sequencer alive.
C13_Witness ==
    /\ pc_main = "startup_exit"
    /\ running
    /\ hc["main"].ret.kind = "tuple"
    /\ ~hc["main"].ret.validator_ok
    /\ hc["main"].ret.sequencer_ok
    /\ stats.total_transactions = 0

\* ----------------------------------------------------------------------
\* Shutdown of the two loops (SpecBothFair)
\* ----------------------------------------------------------------------

\* C14: once the flag is cleared, main eventually returns and the monitor
\* loop eventually exits; a loop condition that sees the cleared flag leaves
\* its loop (main to the finally block or the early return, the monitor out
\* of monitor_blockchain), and a finished thread takes no further step.
C14_LoopsStopAfterSignal ==
    /\ (~running) ~> (pc_main = "done" /\ pc_mon = "done")
    /\ [][/\ (~running /\ pc_main = "loop_test" /\ pc_main' # pc_main) =>
                pc_main' = "finally"
          /\ (~running /\ pc_main = "startup_test" /\ pc_main' # pc_main) =>
                pc_main' = "startup_exit"
          /\ (~running /\ pc_main = "startup_exit" /\ pc_main' # pc_main) =>
                pc_main' = "done"
          /\ (~running /\ pc_mon = "test" /\ pc_mon' # pc_mon) =>
                pc_mon' = "done"
          /\ pc_main = "done" => pc_main' = "done"
          /\ pc_mon = "done" => pc_mon' = "done"
         ]_vars

\* Both loops have stopped after a signal that arrived once a transaction
\* had been sent and the monitor had finished a poll.
C14_Witness ==
    /\ ~running
    /\ pc_main = "done"
    /\ pc_mon = "done"
    /\ final_stats_printed
    /\ stats.total_transactions > 0
    /\ mon_sleep > 0

\* ----------------------------------------------------------------------
\* Sends after the flag is cleared (SpecMain)
\* ----------------------------------------------------------------------

\* C15: once the flag is cleared no new send_transaction call is set up, in
\* the loop or in a burst, so the only call that can still start is the one
\* whose flag test had passed when the signal arrived; a burst in progress
\* that sees the cleared flag breaks out, a burst invoked after the signal
\* sends nothing, and main goes on to the finally block.
C15_AtMostOneSendAfterSignal ==
    [][~running =>
          /\ ~running'
          /\ tx'.pc = "begin" => tx.pc = "begin"
          /\ stats'.total_transactions # stats.total_transactions =>
                /\ tx.pc = "begin"
                /\ tx'.pc # "begin"
                /\ stats'.total_transactions = stats.total_transactions + 1
          /\ (pc_main = "burst_loop" /\ pc_main' # pc_main) =>
                pc_main' = "stats_check" /\ tx' = tx
          /\ (pc_main = "burst" /\ pc_main' # pc_main) =>
                pc_main' \in {"stats_check", "burst_loop"} /\ tx' = tx
          /\ (pc_main = "loop_test" /\ pc_main' # pc_main) =>
                pc_main' = "finally" /\ tx' = tx
      ]_vars

\* The signal arrived during a burst with sends remaining; the burst is at
\* its flag test.
C15_Witness ==
    /\ ~running
    /\ pc_main = "burst_loop"
    /\ burst.i >= 1
    /\ burst.i < burst.burst_size

\* ----------------------------------------------------------------------
\* Bursts (SpecMain)
\* ----------------------------------------------------------------------

BurstPcs == {"burst", "burst_loop", "burst_send"}

\* One step of main seen from the burst: generate_burst_activity is entered
\* exactly from a main-loop send that brought transaction_count to a
\* positive multiple of 20; nothing inside it changes transaction_count;
\* with ENABLE_BURST_MODE false, or when no burst fires, it returns without
\* a send; a burst that fires has a size of 5 to 15.
burst_step ==
    /\ (pc_main = "send" /\ pc_main' \notin {"send", "except"}) =>
          /\ transaction_count' = transaction_count + 1
          /\ pc_main' = "burst" <=> transaction_count' % 20 = 0
    /\ (pc_main # "burst" /\ pc_main' = "burst") =>
          pc_main = "send" /\ transaction_count' > 0
    /\ pc_main \in BurstPcs =>
          /\ transaction_count' = transaction_count
          /\ transaction_count % 20 = 0
    /\ (pc_main = "burst" /\ pc_main' # pc_main) =>
          /\ tx' = tx
          /\ stats' = stats
          /\ pc_main' \in {"stats_check", "burst_loop"}
          /\ ~ENABLE_BURST_MODE => pc_main' = "stats_check"
          /\ pc_main' = "burst_loop" =>
                burst'.burst_size \in 5..15 /\ burst'.i = 0
    /\ ~ENABLE_BURST_MODE =>
          pc_main \notin {"burst_loop", "burst_send"} /\ tx.caller # "burst"
    /\ (pc_main = "burst_send" /\ pc_main' = "burst_loop") =>
          burst'.i = burst.i + 1 /\ burst'.i <= burst.burst_size

rpc_ok_attempts ==
    {i \in 1..max_retries : ~rpc_outs[i].exc /\ rpc_outs[i].status = 200}

no_result_height_zero ==
    \A r \in RpcResults :
        (r = None \/ r.kind \in {"error", "other"}) =>
            block_height(r) = [ok |-> TRUE, val |-> 0]

\* C18: a step of check_network_health or of monitor_blockchain leaves the
\* three transaction counters unchanged; a step of send_transaction or of
\* generate_burst_activity leaves last_block_check and blocks_observed
\* unchanged; a health check that got no block height (current_block = 0,
\* which an answer of none or without a result field gives) returns at the
\* comparison without changing stats.
C18_DisjointWrites ==
    [][/\ (hc' # hc \/ pc_mon' # pc_mon) =>
             /\ stats'.total_transactions = stats.total_transactions
             /\ stats'.successful_transactions = stats.successful_transactions
             /\ stats'.failed_transactions = stats.failed_transactions
       /\ (tx' # tx \/ burst' # burst
             \/ (pc_main \in {"send", "burst", "burst_loop", "burst_send"}
                    /\ pc_main' # pc_main)) =>
             /\ stats'.last_block_check = stats.last_block_check
             /\ stats'.blocks_observed = stats.blocks_observed
       /\ no_result_height_zero
       /\ \A t \in Threads :
             (hc[t].pc \in {"probe", "compare"} /\ hc'[t] # hc[t]
                 /\ hc'[t].current_block = 0 /\ hc'[t].pc # "idle") =>
                 /\ stats' = stats
                 /\ hc'[t].pc \in {"compare", "done"}
                 /\ hc[t].pc = "compare" => hc'[t].pc = "done"
      ]_vars

\* The monitor's check got no block height and has returned, after earlier
\* checks raised the watermark to 2 and main sent a transaction.
C18_Witness ==
    /\ hc["monitor"].pc = "done"
    /\ ~hc["monitor"].exc
    /\ hc["monitor"].ret.current_block = 0
    /\ stats.last_block_check = 2
    /\ stats.blocks_observed = 2
    /\ stats.total_transactions = 1
    /\ stats.successful_transactions = 1

====
